---- MODULE Spec2Model ----
(***************************************************************************)
(* A model of aibrite/ml/analyser.py: NeuralNetAnalyser (the coordinator), *)
(* the executor's pool of workers running NeuralNetAnalyser._start_job,    *)
(* and the futures that concurrent.futures.as_completed drains in start(). *)
(***************************************************************************)
EXTENDS Integers, Sequences, FiniteSets, TLC

\* ---------------------------------------------------------------- bounds
MaxJobs == 2        \* submit() calls
Iterations == 1     \* training iterations of a train() call that returns
MaxStarts == 2      \* start() calls
MaxCpu == 2         \* os.cpu_count() of the machine
MaxThreads == 2     \* threads of one job that call add_to_*_log at once
MaxCalls == 4       \* add_to_*_log calls these threads make in all

Jobs == 1..MaxJobs
Threads == 1..MaxThreads
None == 0           \* Python's None, for max_workers

\* the keys of the test_sets mapping every submit() call passes, in the
\* order items() gives them
TestSets == <<"dev", "test">>

\* score.labels, the labels of the classifier, in order
Labels == <<"0", "1">>

VARIABLES
    max_workers,      \* the max_workers argument of NeuralNetAnalyser(...)
    cpu_count,        \* os.cpu_count(), the pool size of executor(max_workers=None)
    job_completed,    \* TRUE when a job_completed callback was given
    worker_list,      \* self.worker_list: the futures submit() appended
    fstate,           \* each future: "none", "pending", "running", "ok", "exc"
    status,           \* AnalyserJob.status inside the worker
    train_data,       \* AnalyserJob._train_data inside the worker
    prediction_data,  \* AnalyserJob._prediction_data inside the worker
    result,           \* what future.result() returns for a future that is "ok"
    job_list,         \* analyser.job_list as the workers see it
    train_log,        \* self.train_log (rows of the DataFrame)
    prediction_log,   \* self.prediction_log
    train_file,       \* rows of train.csv
    pred_file,        \* rows of pred.csv
    pc,               \* where start() is: "idle", "drain", "callback", "save"
    fs,               \* as_completed: set(fs), the futures this call drains
    ready,            \* as_completed: finished when the drain began, not yet yielded
    pending,          \* as_completed: not finished when the drain began, not yet yielded
    arrivals,         \* as_completed: waiter.finished_futures, in completion order
    cur,              \* the future whose successful result start() handled last
    steps,            \* what start() has done for cur in this call
    startCalls,       \* start() calls so far
    exit,             \* how the last start() ended: "none" while it runs,
                      \* "returned", or what raised: "future", "ValueError",
                      \* "job_completed", "save_logs"
    faulted,          \* TRUE once job_completed or save_logs has raised
    merged,           \* per job: _append_job_data calls with its result
    reported,         \* per job: times the except branch of start() reported it
    cbCount,          \* per job: job_completed calls with its result
    cbArg,            \* the JobResult of the last job_completed call
    merged0,          \* merged when the running start() began
    reported0,        \* reported when the running start() began
    thr,              \* per thread of job 1: where its add_to_*_log call is,
                      \* the calls it has made, the list it read
    trainlock,        \* AnalyserJob._trainlock of job 1: its holder, or 0
    predlock          \* AnalyserJob._predlock of job 1: its holder, or 0

vars == <<max_workers, cpu_count, job_completed, worker_list, fstate,
          status, train_data, prediction_data, result, job_list, train_log,
          prediction_log, train_file, pred_file, pc, fs, ready, pending,
          arrivals, cur, steps, startCalls, exit, faulted, merged, reported, cbCount,
          cbArg, merged0, reported0, thr, trainlock, predlock>>

lockVars == <<thr, trainlock, predlock>>

coordVars == <<train_log, prediction_log, train_file, pred_file, pc, fs, ready,
               pending, cur, steps, startCalls, exit, faulted, merged,
               reported,
               cbCount, cbArg, merged0, reported0>>

jobVars == <<status, train_data, prediction_data, result, job_list>>

config == <<max_workers, cpu_count, job_completed>>

\* ---------------------------------------------------------------- helpers
Range(s) == {s[i] : i \in 1..Len(s)}

\* worker_list.remove, had it removed nothing
RemoveFirstNothing(s, x) == s

RECURSIVE RemoveFirst(_, _)
\* list.remove(x): drops the first element equal to x
RemoveFirst(s, x) ==
    IF s = <<>> THEN <<>>
    ELSE IF Head(s) = x THEN Tail(s)
    ELSE <<Head(s)>> \o RemoveFirst(Tail(s), x)

\* AnalyserJob.add_to_train_log: the record appended for the k-th callback
TrainRow(j, k) == [job |-> j, iter |-> k]

\* AnalyserJob.add_to_prediction_log: only the totals record is appended
PredictionRow(j, t) == [job |-> j, test_set |-> t, label |-> "__totals__"]

\* the per-label record add_to_prediction_log builds for label l
LabelRow(j, t, l) == [job |-> j, test_set |-> t, label |-> l]

\* AddToPredictionLog, had every per-label record been appended as well
AddToPredictionLogPerLabel(pd, j, t) ==
    pd \o [i \in 1..Len(Labels) |-> LabelRow(j, t, Labels[i])]
       \o <<PredictionRow(j, t)>>

\* add_to_prediction_log: the loop over score.labels builds a record per
\* label and drops it; the totals record alone is appended, under _predlock
AddToPredictionLog(pd, j, t) ==
    LET perLabel == [i \in 1..Len(Labels) |-> LabelRow(j, t, Labels[i])]
    IN  Append(pd, PredictionRow(j, t))

\* JobResult(train_data, prediction_data), and the tuple _start_job returns
JobResult(td, pd) == [train_data |-> td, prediction_data |-> pd]

NoResult == JobResult(<<>>, <<>>)

\* executor(max_workers=None): the pool size ProcessPoolExecutor gives itself
ExecutorWorkers(mw) == IF mw = None THEN cpu_count ELSE mw

\* NeuralNetAnalyser.__init__ builds the executor with max_workers=None
PoolSize == ExecutorWorkers(None)

Running == {j \in Jobs : fstate[j] = "running"}

Finished(j) == fstate[j] \in {"ok", "exc"}

\* ---------------------------------------------------------------- Init
InitRest ==
    /\ cpu_count \in 1..MaxCpu
    /\ job_completed \in BOOLEAN
    /\ worker_list = <<>>
    /\ fstate = [j \in Jobs |-> "none"]
    /\ status = [j \in Jobs |-> "none"]
    /\ train_data = [j \in Jobs |-> <<>>]
    /\ prediction_data = [j \in Jobs |-> <<>>]
    /\ result = [j \in Jobs |-> NoResult]
    /\ job_list = {}
    /\ train_log = <<>>
    /\ prediction_log = <<>>
    /\ train_file = <<>>
    /\ pred_file = <<>>
    /\ pc = "idle"
    /\ fs = {}
    /\ ready = {}
    /\ pending = {}
    /\ arrivals = <<>>
    /\ cur = 0
    /\ steps = <<>>
    /\ startCalls = 0
    /\ exit = "none"
    /\ faulted = FALSE
    /\ merged = [j \in Jobs |-> 0]
    /\ reported = [j \in Jobs |-> 0]
    /\ cbCount = [j \in Jobs |-> 0]
    /\ cbArg = NoResult
    /\ merged0 = [j \in Jobs |-> 0]
    /\ reported0 = [j \in Jobs |-> 0]
    /\ thr = [t \in Threads |-> [pc |-> "idle", calls |-> <<>>,
                                  local |-> <<>>]]
    /\ trainlock = 0
    /\ predlock = 0

\* NeuralNetAnalyser(): max_workers keeps its default, None
Init == max_workers = None /\ InitRest

\* NeuralNetAnalyser(max_workers=n)
InitWorkers == max_workers \in 1..MaxCpu /\ InitRest

\* ---------------------------------------------------------------- submit
\* submit(): executor.submit(_start_job, ...), then worker_list.append(item).
\* Called by the owner of the analyser between start() calls, or from inside
\* the job_completed callback while start() runs.
Submit(j) ==
    /\ pc \in {"idle", "callback"}
    /\ fstate[j] = "none"
    /\ \A i \in Jobs : i < j => fstate[i] # "none"
    /\ fstate' = [fstate EXCEPT ![j] = "pending"]
    /\ worker_list' = Append(worker_list, j)
    /\ UNCHANGED <<lockVars, config, jobVars, coordVars, arrivals>>

\* ---------------------------------------------------------------- workers
\* Notify, had as_completed waited on worker_list itself and not on the copy
\* it took when the drain began
NotifyLive(j) == IF pc # "idle" /\ j \notin Range(arrivals)
                 THEN Append(arrivals, j) ELSE arrivals

\* A future that finishes while as_completed waits on it is added to the
\* waiter's finished_futures.
Notify(j) == IF pc # "idle" /\ j \in pending /\ j \notin Range(arrivals)
             THEN Append(arrivals, j) ELSE arrivals

\* Dispatch, had _start_job set status 'training:started' before constructing
\* the classifier
DispatchTrainingStarted(j) ==
    /\ fstate[j] = "pending"
    /\ \A i \in Jobs : i < j => fstate[i] # "pending"
    /\ Cardinality(Running) < PoolSize
    /\ fstate' = [fstate EXCEPT ![j] = "running"]
    /\ status' = [status EXCEPT ![j] = "training:started"]
    /\ job_list' = job_list \cup {j}
    /\ UNCHANGED <<lockVars, config, worker_list, train_data, prediction_data,
                   result, coordVars, arrivals>>

\* A free worker takes the oldest queued work item and runs _start_job up to
\* the constructor call: the AnalyserJob is created and registered.
Dispatch(j) ==
    /\ fstate[j] = "pending"
    /\ \A i \in Jobs : i < j => fstate[i] # "pending"
    /\ Cardinality(Running) < PoolSize
    /\ fstate' = [fstate EXCEPT ![j] = "running"]
    /\ status' = [status EXCEPT ![j] = "created"]
    /\ job_list' = job_list \cup {j}
    /\ UNCHANGED <<lockVars, config, worker_list, train_data, prediction_data,
                   result, coordVars, arrivals>>

\* Fail, had _start_job caught the exception and returned what the job had
\* recorded so far
FailReturnsPartial(j) ==
    /\ fstate' = [fstate EXCEPT ![j] = "ok"]
    /\ result' = [result EXCEPT
                    ![j] = JobResult(train_data[j], prediction_data[j])]
    /\ arrivals' = Notify(j)
    /\ UNCHANGED <<lockVars, config, worker_list, status, train_data, prediction_data,
                   job_list, coordVars>>

\* The exception leaves _start_job: the future finishes with it.
Fail(j) ==
    /\ fstate' = [fstate EXCEPT ![j] = "exc"]
    /\ arrivals' = Notify(j)
    /\ UNCHANGED <<lockVars, config, worker_list, jobVars, coordVars>>

\* neuralnet_class(train_x, train_y, **kvargs) returns; status is set after it
JobConstruct(j) ==
    /\ fstate[j] = "running" /\ status[j] = "created"
    /\ status' = [status EXCEPT ![j] = "training:started"]
    /\ UNCHANGED <<lockVars, config, worker_list, fstate, train_data,
                   prediction_data, result, job_list, coordVars, arrivals>>

JobConstructRaises(j) ==
    /\ fstate[j] = "running" /\ status[j] = "created"
    /\ Fail(j)

\* JobTrainIter, had the callback also appended the record to the analyser's
\* train_log from inside the worker
JobTrainIterWritesLog(j) ==
    /\ fstate[j] = "running" /\ status[j] = "training:started"
    /\ Len(train_data[j]) < Iterations
    /\ train_data' = [train_data EXCEPT
                        ![j] = Append(@, TrainRow(j, Len(@) + 1))]
    /\ train_log' = Append(train_log, TrainRow(j, Len(train_data[j]) + 1))
    /\ UNCHANGED <<lockVars, config, worker_list, fstate, status, prediction_data,
                   result, job_list, prediction_log, train_file, pred_file,
                   pc, fs, ready, pending, cur, steps, startCalls, exit,
                   faulted, merged, reported, cbCount, cbArg, merged0,
                   reported0, arrivals>>

\* train() calls the callback once more: add_to_train_log appends a record
JobTrainIter(j) ==
    /\ fstate[j] = "running" /\ status[j] = "training:started"
    /\ Len(train_data[j]) < Iterations
    /\ train_data' = [train_data EXCEPT
                        ![j] = Append(@, TrainRow(j, Len(@) + 1))]
    /\ UNCHANGED <<lockVars, config, worker_list, fstate, status,
                   prediction_data, result, job_list, coordVars, arrivals>>

JobTrainRaises(j) ==
    /\ fstate[j] = "running" /\ status[j] = "training:started"
    /\ Fail(j)

\* train() returns
JobTrainDone(j) ==
    /\ fstate[j] = "running" /\ status[j] = "training:started"
    /\ Len(train_data[j]) = Iterations
    /\ status' = [status EXCEPT ![j] = "prediction:started"]
    /\ UNCHANGED <<lockVars, config, worker_list, fstate, train_data,
                   prediction_data, result, job_list, coordVars, arrivals>>

\* JobPredict, had add_to_prediction_log also appended the record to the
\* analyser's prediction_log from inside the worker
JobPredictWritesLog(j) ==
    /\ fstate[j] = "running" /\ status[j] = "prediction:started"
    /\ Len(prediction_data[j]) < Len(TestSets)
    /\ prediction_data' = [prediction_data EXCEPT
                             ![j] = AddToPredictionLog(
                                        @, j, TestSets[Len(@) + 1])]
    /\ prediction_log' =
          Append(prediction_log,
                 PredictionRow(j, TestSets[Len(prediction_data[j]) + 1]))
    /\ UNCHANGED <<lockVars, config, worker_list, fstate, status, train_data, result,
                   job_list, train_log, train_file, pred_file, pc, fs, ready,
                   pending, cur, steps, startCalls, exit, faulted, merged,
                   reported, cbCount, cbArg, merged0, reported0, arrivals>>

\* one turn of the loop over test_sets: predict, score_report,
\* add_to_prediction_log
JobPredict(j) ==
    /\ fstate[j] = "running" /\ status[j] = "prediction:started"
    /\ Len(prediction_data[j]) < Len(TestSets)
    /\ prediction_data' = [prediction_data EXCEPT
                             ![j] = AddToPredictionLog(
                                        @, j, TestSets[Len(@) + 1])]
    /\ UNCHANGED <<lockVars, config, worker_list, fstate, status, train_data,
                   result, job_list, coordVars, arrivals>>

\* predict or score_report raises for the next test set
JobPredictRaises(j) ==
    /\ fstate[j] = "running" /\ status[j] = "prediction:started"
    /\ Len(prediction_data[j]) < Len(TestSets)
    /\ Fail(j)

\* JobReturn, had _start_job been able to return from inside the loop over
\* test_sets
JobReturnEarly(j) ==
    /\ fstate[j] = "running" /\ status[j] = "prediction:started"
    /\ status' = [status EXCEPT ![j] = "completed"]
    /\ result' = [result EXCEPT
                    ![j] = JobResult(train_data[j], prediction_data[j])]
    /\ fstate' = [fstate EXCEPT ![j] = "ok"]
    /\ arrivals' = Notify(j)
    /\ UNCHANGED <<lockVars, config, worker_list, train_data, prediction_data,
                   job_list, coordVars>>

\* the loop is over: status = 'completed', return the two sequences
JobReturn(j) ==
    /\ fstate[j] = "running" /\ status[j] = "prediction:started"
    /\ Len(prediction_data[j]) = Len(TestSets)
    /\ status' = [status EXCEPT ![j] = "completed"]
    /\ result' = [result EXCEPT
                    ![j] = JobResult(train_data[j], prediction_data[j])]
    /\ fstate' = [fstate EXCEPT ![j] = "ok"]
    /\ arrivals' = Notify(j)
    /\ UNCHANGED <<lockVars, config, worker_list, train_data, prediction_data,
                   job_list, coordVars>>

JobStep(j) ==
    \/ Dispatch(j)
    \/ JobConstruct(j)
    \/ JobConstructRaises(j)
    \/ JobTrainIter(j)
    \/ JobTrainRaises(j)
    \/ JobTrainDone(j)
    \/ JobPredict(j)
    \/ JobPredictRaises(j)
    \/ JobReturn(j)

\* ---------------------------------------------------------------- start
\* as_completed(self.worker_list): fs = set(fs)
AsCompleted(wl) == Range(wl)

\* AppendJobData, had the appended frame replaced the log instead of
\* extending it
AppendJobDataOverwrite(log, items) == items

\* _append_job_data: every item is appended at the end of the log
AppendJobData(log, items) == log \o items

\* Reraise, were "raise exc" not commented out
ReraiseAlways == TRUE

\* start(): "# raise exc" is commented out in the except branch
Reraise == FALSE

\* AfterMerge, had the callback call been left out
AfterMergeSave == "save"

\* start(): after _append_job_data, "if self.job_completed != None"
AfterMerge == IF job_completed THEN "callback" ELSE "save"

\* start(): after the callback comes self.save_logs()
AfterCallback == "save"

\* ToCsv, had the file been opened for appending
ToCsvAppend(log, file) == file \o log

\* save_logs(): to_csv writes the whole DataFrame over the file
ToCsv(log, file) == log

\* NextFuture, had start() waited on the futures in submission order
\* (for future in self.worker_list: future.result())
NextFutureInSubmissionOrder ==
    LET left == ready \cup pending IN
    IF left = {} THEN {}
    ELSE LET h == CHOOSE x \in left : \A y \in left : x <= y IN
         IF Finished(h) THEN {h} ELSE {}

\* the future as_completed yields next: those finished when the drain began
\* first, then the arrivals in completion order
NextFuture ==
    IF ready # {} THEN ready
    ELSE IF arrivals # <<>> THEN {Head(arrivals)}
    ELSE {}

\* Yielded, had as_completed not taken j out of its pending set
YieldedLeavesPending(j) ==
    /\ ready' = ready \ {j}
    /\ pending' = pending
    /\ arrivals' = SelectSeq(arrivals, LAMBDA x : x # j)

\* as_completed's bookkeeping once j is yielded
Yielded(j) ==
    /\ ready' = ready \ {j}
    /\ pending' = pending \ {j}
    /\ arrivals' = SelectSeq(arrivals, LAMBDA x : x # j)

\* start() is called: the generator takes its snapshot of worker_list
StartCall ==
    /\ pc = "idle"
    /\ startCalls < MaxStarts
    /\ startCalls' = startCalls + 1
    /\ fs' = AsCompleted(worker_list)
    /\ ready' = {j \in AsCompleted(worker_list) : Finished(j)}
    /\ pending' = {j \in AsCompleted(worker_list) : ~Finished(j)}
    /\ arrivals' = <<>>
    /\ steps' = <<>>
    /\ merged0' = merged
    /\ reported0' = reported
    /\ exit' = "none"
    /\ pc' = "drain"
    /\ UNCHANGED <<lockVars, config, worker_list, fstate, jobVars, train_log,
                   prediction_log, train_file, pred_file, cur, faulted, merged,
                   reported, cbCount, cbArg>>

\* future.result() raises: the except branch prints the error and removes
\* the future from worker_list (list.remove raises ValueError when it is
\* not there)
HandleFailure(j) ==
    /\ pc = "drain"
    /\ j \in NextFuture
    /\ fstate[j] = "exc"
    /\ Yielded(j)
    /\ reported' = [reported EXCEPT ![j] = @ + 1]
    /\ IF Reraise \/ j \notin Range(worker_list)
       THEN /\ pc' = "idle"
            /\ exit' = IF Reraise THEN "future" ELSE "ValueError"
            /\ UNCHANGED worker_list
       ELSE /\ worker_list' = RemoveFirst(worker_list, j)
            /\ UNCHANGED <<pc, exit>>
    /\ UNCHANGED <<lockVars, config, fstate, jobVars, train_log,
                   prediction_log, train_file, pred_file, fs, cur, steps,
                   startCalls, faulted, merged, cbCount, cbArg, merged0,
                   reported0>>

\* future.result() returns: the else branch calls _append_job_data
HandleSuccess(j) ==
    /\ pc = "drain"
    /\ j \in NextFuture
    /\ fstate[j] = "ok"
    /\ Yielded(j)
    /\ prediction_log' = AppendJobData(prediction_log, result[j].prediction_data)
    /\ train_log' = AppendJobData(train_log, result[j].train_data)
    /\ merged' = [merged EXCEPT ![j] = @ + 1]
    /\ cur' = j
    /\ steps' = <<"merge">>
    /\ pc' = AfterMerge
    /\ UNCHANGED <<lockVars, config, worker_list, fstate, jobVars, train_file,
                   pred_file, fs, startCalls, exit, faulted, reported, cbCount,
                   cbArg, merged0, reported0>>

\* self.job_completed(self, JobResult(...)) returns
Callback ==
    /\ pc = "callback"
    /\ cbCount' = [cbCount EXCEPT ![cur] = @ + 1]
    /\ cbArg' = JobResult(result[cur].train_data, result[cur].prediction_data)
    /\ steps' = Append(steps, "callback")
    /\ pc' = AfterCallback
    /\ UNCHANGED <<lockVars, config, worker_list, fstate, jobVars, train_log,
                   prediction_log, train_file, pred_file, fs, ready, pending,
                   arrivals, cur, startCalls, exit, faulted, merged, reported,
                   merged0, reported0>>

\* CallbackRaises, had start() called save_logs in a finally clause
CallbackRaisesSaves ==
    /\ pc = "callback"
    /\ cbCount' = [cbCount EXCEPT ![cur] = @ + 1]
    /\ cbArg' = JobResult(result[cur].train_data, result[cur].prediction_data)
    /\ pred_file' = ToCsv(prediction_log, pred_file)
    /\ train_file' = ToCsv(train_log, train_file)
    /\ steps' = Append(steps, "callback")
    /\ pc' = "idle"
    /\ exit' = "job_completed"
    /\ faulted' = TRUE
    /\ UNCHANGED <<lockVars, config, worker_list, fstate, jobVars, train_log,
                   prediction_log, fs, ready, pending, arrivals, cur,
                   startCalls, merged, reported, merged0, reported0>>

\* self.job_completed(...) raises: nothing in start() catches it
CallbackRaises ==
    /\ pc = "callback"
    /\ cbCount' = [cbCount EXCEPT ![cur] = @ + 1]
    /\ cbArg' = JobResult(result[cur].train_data, result[cur].prediction_data)
    /\ steps' = Append(steps, "callback")
    /\ pc' = "idle"
    /\ exit' = "job_completed"
    /\ faulted' = TRUE
    /\ UNCHANGED <<lockVars, config, worker_list, fstate, jobVars, train_log,
                   prediction_log, train_file, pred_file, fs, ready, pending,
                   arrivals, cur, startCalls, merged, reported, merged0,
                   reported0>>

\* save_logs() writes pred.csv, then train.csv
SaveLogs ==
    /\ pc = "save"
    /\ pred_file' = ToCsv(prediction_log, pred_file)
    /\ train_file' = ToCsv(train_log, train_file)
    /\ steps' = Append(steps, "save")
    /\ pc' = "drain"
    /\ UNCHANGED <<lockVars, config, worker_list, fstate, jobVars, train_log,
                   prediction_log, fs, ready, pending, arrivals, cur,
                   startCalls, exit, faulted, merged, reported, cbCount, cbArg,
                   merged0, reported0>>

\* SaveLogsRaises, had start() rolled the logs back to what the files hold
SaveLogsRaisesRollsBack(first) ==
    /\ pc = "save"
    /\ pred_file' = IF first THEN pred_file ELSE ToCsv(prediction_log, pred_file)
    /\ train_log' = train_file
    /\ prediction_log' = pred_file
    /\ pc' = "idle"
    /\ exit' = "save_logs"
    /\ faulted' = TRUE
    /\ UNCHANGED <<lockVars, config, worker_list, fstate, jobVars, train_file, fs,
                   ready, pending, arrivals, cur, steps, startCalls, merged,
                   reported, cbCount, cbArg, merged0, reported0>>

\* save_logs() raises: in the first to_csv (no file is written) or in the
\* second (pred.csv is written); nothing in start() catches it
SaveLogsRaises(first) ==
    /\ pc = "save"
    /\ pred_file' = IF first THEN pred_file ELSE ToCsv(prediction_log, pred_file)
    /\ pc' = "idle"
    /\ exit' = "save_logs"
    /\ faulted' = TRUE
    /\ UNCHANGED <<lockVars, config, worker_list, fstate, jobVars, train_log,
                   prediction_log, train_file, fs, ready, pending, arrivals,
                   cur, steps, startCalls, merged, reported, cbCount, cbArg,
                   merged0, reported0>>

\* as_completed is exhausted: start() returns
StartReturn ==
    /\ pc = "drain"
    /\ ready = {}
    /\ pending = {}
    /\ pc' = "idle"
    /\ exit' = "returned"
    /\ UNCHANGED <<lockVars, config, worker_list, fstate, jobVars, train_log,
                   prediction_log, train_file, pred_file, fs, ready, pending,
                   arrivals, cur, steps, startCalls, faulted, merged, reported,
                   cbCount, cbArg, merged0, reported0>>

\* the steps of a running start() call
DrainStep ==
    \/ \E j \in Jobs : HandleFailure(j)
    \/ \E j \in Jobs : HandleSuccess(j)
    \/ Callback
    \/ CallbackRaises
    \/ SaveLogs
    \/ \E first \in BOOLEAN : SaveLogsRaises(first)
    \/ StartReturn

Next ==
    \/ \E j \in Jobs : Submit(j)
    \/ \E j \in Jobs : JobStep(j)
    \/ StartCall
    \/ DrainStep

Spec == Init /\ [][Next]_vars

\* the analyser built with an explicit max_workers
SpecWorkers == InitWorkers /\ [][Next]_vars

\* start() runs on the caller's thread: a running call takes its next step
DrainSpec == Spec /\ WF_vars(DrainStep)

\* as DrainSpec, and every job runs on: no train or predict call hangs
LiveSpec == DrainSpec /\ \A j \in Jobs : WF_vars(JobStep(j))

\* ---------------------------------------------------------------- locks
\* Threads inside one job (job 1, while it runs) that call
\* add_to_train_log and add_to_prediction_log at the same time.
LockJob == 1

otherVars == <<config, worker_list, fstate, status, result, job_list,
               coordVars, arrivals>>

\* a Lock that ignores who holds it
LockFreeAlways(l) == TRUE

\* threading.Lock: acquire goes through only when nobody holds the lock
LockFree(l) == l = 0

\* the record the i-th call of thread t builds
CallRecord(kind, t, i) ==
    IF kind = "train" THEN TrainRow(LockJob, <<t, i>>)
    ELSE PredictionRow(LockJob, <<t, i>>)

CurrentCall(t) == thr[t].calls[Len(thr[t].calls)]

\* the number of add_to_*_log calls made so far
CallsMade ==
    Cardinality({c \in Threads \X (1..MaxCalls) : c[2] <= Len(thr[c[1]].calls)})

\* add_to_train_log / add_to_prediction_log is called: data is built, outside
\* the lock
ThreadCall(t, kind) ==
    /\ thr[t].pc = "idle"
    /\ CallsMade < MaxCalls
    /\ thr' = [thr EXCEPT ![t].pc = "wait", ![t].calls = Append(@, kind)]
    /\ UNCHANGED <<otherVars, train_data, prediction_data, trainlock, predlock>>

\* with self._trainlock: / with self._predlock: the lock is taken, and
\* list.append begins: the list is read
ThreadAcquire(t) ==
    /\ thr[t].pc = "wait"
    /\ IF CurrentCall(t) = "train"
       THEN LockFree(trainlock) /\ trainlock' = t /\ UNCHANGED predlock
       ELSE LockFree(predlock) /\ predlock' = t /\ UNCHANGED trainlock
    /\ thr' = [thr EXCEPT
                 ![t].pc = "append",
                 ![t].local = IF CurrentCall(t) = "train"
                              THEN train_data[LockJob]
                              ELSE prediction_data[LockJob]]
    /\ UNCHANGED <<otherVars, train_data, prediction_data>>

\* list.append ends: the list with the record at its end is stored
ThreadWrite(t) ==
    /\ thr[t].pc = "append"
    /\ LET rec == CallRecord(CurrentCall(t), t, Len(thr[t].calls)) IN
       IF CurrentCall(t) = "train"
       THEN /\ train_data' = [train_data EXCEPT
                                ![LockJob] = Append(thr[t].local, rec)]
            /\ UNCHANGED prediction_data
       ELSE /\ prediction_data' = [prediction_data EXCEPT
                                     ![LockJob] = Append(thr[t].local, rec)]
            /\ UNCHANGED train_data
    /\ thr' = [thr EXCEPT ![t].pc = "unlock", ![t].local = <<>>]
    /\ UNCHANGED <<otherVars, trainlock, predlock>>

\* the with block ends: the lock is released, and data is returned
ThreadRelease(t) ==
    /\ thr[t].pc = "unlock"
    /\ IF CurrentCall(t) = "train"
       THEN trainlock' = 0 /\ UNCHANGED predlock
       ELSE predlock' = 0 /\ UNCHANGED trainlock
    /\ thr' = [thr EXCEPT ![t].pc = "idle"]
    /\ UNCHANGED <<otherVars, train_data, prediction_data>>

NextLock ==
    \/ \E t \in Threads, kind \in {"train", "prediction"} : ThreadCall(t, kind)
    \/ \E t \in Threads : ThreadAcquire(t)
    \/ \E t \in Threads : ThreadWrite(t)
    \/ \E t \in Threads : ThreadRelease(t)

\* job 1 has been submitted and dispatched and is running in its worker
InitLock ==
    /\ max_workers = None
    /\ cpu_count = 1
    /\ job_completed = FALSE
    /\ worker_list = <<LockJob>>
    /\ fstate = [j \in Jobs |-> IF j = LockJob THEN "running" ELSE "none"]
    /\ status = [j \in Jobs |->
                    IF j = LockJob THEN "training:started" ELSE "none"]
    /\ train_data = [j \in Jobs |-> <<>>]
    /\ prediction_data = [j \in Jobs |-> <<>>]
    /\ result = [j \in Jobs |-> NoResult]
    /\ job_list = {LockJob}
    /\ train_log = <<>>
    /\ prediction_log = <<>>
    /\ train_file = <<>>
    /\ pred_file = <<>>
    /\ pc = "idle"
    /\ fs = {}
    /\ ready = {}
    /\ pending = {}
    /\ arrivals = <<>>
    /\ cur = 0
    /\ steps = <<>>
    /\ startCalls = 0
    /\ exit = "none"
    /\ faulted = FALSE
    /\ merged = [j \in Jobs |-> 0]
    /\ reported = [j \in Jobs |-> 0]
    /\ cbCount = [j \in Jobs |-> 0]
    /\ cbArg = NoResult
    /\ merged0 = [j \in Jobs |-> 0]
    /\ reported0 = [j \in Jobs |-> 0]
    /\ thr = [t \in Threads |-> [pc |-> "idle", calls |-> <<>>,
                                  local |-> <<>>]]
    /\ trainlock = 0
    /\ predlock = 0

\* the threads of one running job
SpecLock == InitLock /\ [][NextLock]_vars

\* ---------------------------------------------------------------- claims
\* the rows of job j in a log, in the log's order
RowsOf(log, j) == SelectSeq(log, LAMBDA r : r.job = j)

RECURSIVE SumOver(_, _)
SumOver(S, f) ==
    IF S = {} THEN 0
    ELSE LET x == CHOOSE y \in S : TRUE IN f[x] + SumOver(S \ {x}, f)

\* a job whose unit of work ended without reaching 'completed': it raised
FailedJob(j) == Finished(j) /\ status[j] # "completed"

\* a job whose unit of work returned
SucceededJob(j) == Finished(j) /\ status[j] = "completed"

\* what the running (or the last) start() call has done with j
MergedInCall(j) == merged[j] - merged0[j]
ReportedInCall(j) == reported[j] - reported0[j]

\* C1: every successfully completed job is merged into the aggregate logs
\* exactly once over all start() calls: no job is merged a second time, and
\* each log holds a job's rows once.
\* (Stated for the runs in which neither job_completed nor save_logs raises.)
C1_MergedExactlyOnce ==
    ~faulted =>
        \A j \in Jobs :
            /\ merged[j] <= 1
            /\ Len(RowsOf(train_log, j)) <= Len(result[j].train_data)
            /\ Len(RowsOf(prediction_log, j)) <= Len(result[j].prediction_data)

\* C2: a job that failed has no row in either aggregate log and was never
\* merged, whatever it had recorded in the worker before it raised.
C2_FailedJobNoRows ==
    \A j \in Jobs :
        FailedJob(j) =>
            /\ merged[j] = 0
            /\ RowsOf(train_log, j) = <<>>
            /\ RowsOf(prediction_log, j) = <<>>

\* a failed job that had recorded training rows has been drained by start()
C2_Witness ==
    \E j \in Jobs :
        /\ FailedJob(j)
        /\ train_data[j] # <<>>
        /\ reported[j] > 0
        /\ \E k \in Jobs : merged[k] > 0

\* C3: when the first start() call has returned, the aggregate logs hold
\* exactly the rows the successful jobs of that drain returned: each such
\* job's rows as returned, nothing of a failed job, and row counts equal to
\* the sums over the successful jobs.
C3_DrainKeepsSiblings ==
    (startCalls = 1 /\ pc = "idle" /\ exit = "returned") =>
        LET ok == {j \in fs : SucceededJob(j)} IN
        /\ \A j \in ok :
              /\ RowsOf(train_log, j) = result[j].train_data
              /\ RowsOf(prediction_log, j) = result[j].prediction_data
        /\ Len(train_log) =
              SumOver(ok, [j \in Jobs |-> Len(result[j].train_data)])
        /\ Len(prediction_log) =
              SumOver(ok, [j \in Jobs |-> Len(result[j].prediction_data)])

\* the first drain has returned after a failed job, which had recorded
\* training rows, and a successful sibling submitted after it
C3_Witness ==
    /\ startCalls = 1 /\ pc = "idle" /\ exit = "returned"
    /\ \E j, k \in fs :
          /\ j < k
          /\ FailedJob(j) /\ train_data[j] # <<>>
          /\ SucceededJob(k) /\ RowsOf(train_log, k) # <<>>

\* C4: no start() call ends with the exception of a job, nor with an error of
\* the except branch: a call that handled a failed future goes on draining.
C4_NoRaiseOnJobFailure ==
    /\ exit \notin {"future", "ValueError"}
    /\ \A j \in Jobs :
          (pc = "idle" /\ ReportedInCall(j) > 0) =>
              exit \in {"returned", "job_completed", "save_logs"}

\* a start() call has reported a failed job and returned
C4_Witness ==
    /\ pc = "idle" /\ exit = "returned"
    /\ \E j \in fs : ReportedInCall(j) = 1 /\ fstate[j] = "exc"

\* the running (or the last) start() call has handled j exactly once, as what
\* it is
HandledOnce(j) ==
    /\ MergedInCall(j) + ReportedInCall(j) = 1
    /\ SucceededJob(j) => MergedInCall(j) = 1
    /\ FailedJob(j) => ReportedInCall(j) = 1

HandledInCall(j) == MergedInCall(j) + ReportedInCall(j) > 0

\* C5 as claimed: a start() call ends only by returning, and by then every
\* job of the drain has been handled exactly once, as a success or as a
\* failure.
C5_AlwaysReturnsAllHandled ==
    (startCalls > 0 /\ pc = "idle") =>
        /\ exit = "returned"
        /\ \A j \in fs : HandledOnce(j)

\* C5 amended: when every submitted job terminates, a running start() call
\* ends; it ends by returning or with an exception of job_completed or of
\* save_logs, never otherwise; and when it returns, every job that was in
\* worker_list when it began has been handled exactly once, as a success
\* (merged) or as a failure (reported).
C5_ReturnsOrCallbackRaises ==
    /\ [](pc # "idle" => <>(pc = "idle"))
    /\ []((startCalls > 0 /\ pc = "idle") =>
              exit \in {"returned", "job_completed", "save_logs"})
    /\ []((pc = "idle" /\ exit = "returned") => \A j \in fs : HandledOnce(j))

\* a start() call has returned after a success and a failure
C5_Witness ==
    /\ pc = "idle" /\ exit = "returned"
    /\ \E j, k \in fs : MergedInCall(j) = 1 /\ ReportedInCall(k) = 1

\* C6: never more jobs run at once than the max_workers the analyser was
\* built with.
C6_PoolBoundedByMaxWorkers ==
    max_workers # None => Cardinality(Running) <= max_workers

\* C7: job_completed is called at most once per job over all start() calls,
\* never for a failed job, and once for every job whose merge is over.
\* (Stated for the runs in which neither job_completed nor save_logs raises.)
C7_CallbackOncePerJob ==
    ~faulted =>
        \A j \in Jobs :
            /\ cbCount[j] <= 1
            /\ FailedJob(j) => cbCount[j] = 0
            /\ (job_completed /\ merged[j] > 0 /\ pc \in {"drain", "idle"})
                   => cbCount[j] >= 1

\* the steps start() takes for one successful completion
FullSteps ==
    IF job_completed THEN <<"merge", "callback", "save">>
    ELSE <<"merge", "save">>

StepsBeforeSave ==
    IF job_completed THEN <<"merge", "callback">> ELSE <<"merge">>

\* C8: for each successful completion the merge comes first, then the
\* callback (when one is set), then save_logs; and a merge begins only when
\* the completion before it in the same call has had all its steps.
C8_StepOrder ==
    [][ /\ merged' # merged => steps \in {<<>>, FullSteps}
        /\ cbCount' # cbCount =>
              /\ steps = <<"merge">>
              /\ cbCount'[cur] = cbCount[cur] + 1
              /\ MergedInCall(cur) > 0
        /\ (train_file' # train_file \/ pred_file' # pred_file
              \/ steps' = Append(steps, "save")) => steps = StepsBeforeSave
      ]_vars

\* with a callback set, a second completion of one call has had its three
\* steps
C8_Witness ==
    /\ job_completed
    /\ steps = FullSteps
    /\ Cardinality({j \in fs : MergedInCall(j) > 0}) >= 2
    /\ train_file = train_log /\ train_log # <<>>

\* the batch start() merged last
LastBatch == IF cur = 0 THEN NoResult ELSE result[cur]

PersistedUpTo(log, file, batch) == log = file \/ log = file \o batch

\* C9 as claimed: in every state the files hold all of the logs but, at
\* most, the batch merged last.
C9_PersistedButLast ==
    /\ PersistedUpTo(train_log, train_file, LastBatch.train_data)
    /\ PersistedUpTo(prediction_log, pred_file, LastBatch.prediction_data)

\* C9 amended: as long as no job_completed call and no save_logs call has
\* raised, the files hold all of the logs but, at most, the batch merged last.
C9_PersistedButLastUnlessRaised == ~faulted => C9_PersistedButLast

\* a batch is merged and not yet saved, on top of rows saved before
C9_Witness ==
    /\ ~faulted
    /\ pc \in {"callback", "save"}
    /\ train_file # <<>>
    /\ train_log # train_file
    /\ pred_file # <<>>
    /\ prediction_log # pred_file

\* C10: while start() runs, every future of the drain that has finished is
\* handled by that call (unless job_completed or save_logs raised and ended
\* the call), whatever futures submitted before it are still running; the
\* futures that finish during the drain are handled in the order they
\* finished; and start() returns only when every future of the drain has
\* finished.
C10_NoHeadOfLineBlocking ==
    /\ \A j \in Jobs :
          []((pc # "idle" /\ j \in fs /\ Finished(j)) =>
                <>(\/ HandledInCall(j)
                   \/ (pc = "idle" /\ exit \in {"job_completed", "save_logs"})))
    /\ [][\A j \in Jobs :
             (HandledInCall(j)' /\ ~HandledInCall(j) /\ ready = {}) =>
                 (arrivals # <<>> /\ j = Head(arrivals))]_vars
    /\ []((pc = "idle" /\ exit = "returned") => \A j \in fs : Finished(j))

\* a future is handled while one submitted before it is still running
C10_Witness ==
    /\ pc # "idle"
    /\ \E j, k \in fs :
          /\ k < j
          /\ fstate[k] = "running"
          /\ HandledInCall(j)

\* every row merged so far is in the logs: each job's rows, once per merge
AllMergedRowsKept ==
    \A j \in Jobs :
        /\ Len(RowsOf(train_log, j)) = merged[j] * Len(result[j].train_data)
        /\ Len(RowsOf(prediction_log, j)) =
              merged[j] * Len(result[j].prediction_data)

\* log ends with batch
EndsWith(log, batch) ==
    /\ Len(batch) <= Len(log)
    /\ SubSeq(log, Len(log) - Len(batch) + 1, Len(log)) = batch

\* C11: when save_logs has raised, start() has ended with that exception, and
\* the in-memory logs hold every row merged so far, the batch that was not
\* persisted last.
C11_SaveFailureKeepsRows ==
    exit = "save_logs" =>
        /\ pc = "idle"
        /\ MergedInCall(cur) > 0
        /\ AllMergedRowsKept
        /\ EndsWith(train_log, LastBatch.train_data)
        /\ EndsWith(prediction_log, LastBatch.prediction_data)

\* save_logs has raised for a batch merged on top of rows already persisted
C11_Witness ==
    /\ exit = "save_logs"
    /\ train_file # <<>>
    /\ Len(train_log) > Len(train_file)
    /\ LastBatch.train_data # <<>>
    /\ LastBatch.prediction_data # <<>>

\* C12: a step changes train_log or prediction_log only when it is the drain
\* handling one successful completion: start() is waiting for a completion,
\* one job's merge count goes up by one, the future of that job is done, and
\* its returned records are appended to both logs. A step that submits, runs
\* a job, handles a failed future or writes the files leaves both logs as
\* they are.
C12_OnlyDrainMutatesLogs ==
    [][ /\ (train_log' # train_log \/ prediction_log' # prediction_log) =>
              /\ pc = "drain" /\ pc' \in {"callback", "save"}
              /\ \E j \in fs :
                    /\ fstate[j] = "ok"
                    /\ merged' = [merged EXCEPT ![j] = @ + 1]
                    /\ train_log' = train_log \o result[j].train_data
                    /\ prediction_log' =
                          prediction_log \o result[j].prediction_data
        /\ (\/ worker_list' # worker_list
            \/ fstate' # fstate
            \/ jobVars' # jobVars
            \/ reported' # reported
            \/ train_file' # train_file
            \/ pred_file' # pred_file) =>
              (train_log' = train_log /\ prediction_log' = prediction_log)
      ]_vars

\* a batch has been merged and saved while another job, still running, has
\* recorded training rows in its worker
C12_Witness ==
    /\ train_log # <<>>
    /\ prediction_log # <<>>
    /\ train_file = train_log
    /\ \E k \in Jobs : fstate[k] = "running" /\ train_data[k] # <<>>

RECURSIVE WholeBatches(_, _)
\* log is a concatenation of whole batches of B, one after the other
WholeBatches(log, B) ==
    \/ log = <<>>
    \/ \E b \in B :
          /\ b # <<>>
          /\ Len(b) <= Len(log)
          /\ SubSeq(log, 1, Len(b)) = b
          /\ WholeBatches(SubSeq(log, Len(b) + 1, Len(log)), B)

\* C13: each aggregate log is a sequence of whole batches, each the records
\* one job returned, in their order: no row of another job lies between two
\* rows of one batch.
C13_BatchesContiguous ==
    /\ WholeBatches(train_log, {result[j].train_data : j \in Jobs})
    /\ WholeBatches(prediction_log,
                    {result[j].prediction_data : j \in Jobs})

\* the logs hold the batches of two jobs, of more than one row each in the
\* prediction log
C13_Witness ==
    \E j, k \in Jobs :
        /\ j # k
        /\ Len(result[j].prediction_data) > 1
        /\ Len(result[k].prediction_data) > 1
        /\ RowsOf(prediction_log, j) # <<>>
        /\ RowsOf(prediction_log, k) # <<>>
        /\ RowsOf(train_log, j) # <<>>
        /\ RowsOf(train_log, k) # <<>>

\* C14: a job that completed successfully returns one training record per
\* iteration train() performed and one prediction record per test set, in the
\* order of the test sets; and no per-label record is ever in a job's
\* prediction sequence: every record there has the label '__totals__'.
C14_RecordsPerJob ==
    \A j \in Jobs :
        /\ \A i \in 1..Len(prediction_data[j]) :
              prediction_data[j][i].label = "__totals__"
        /\ SucceededJob(j) =>
              /\ Len(result[j].train_data) = Iterations
              /\ \A i \in 1..Iterations :
                    result[j].train_data[i] = TrainRow(j, i)
              /\ Len(result[j].prediction_data) = Len(TestSets)
              /\ \A i \in 1..Len(TestSets) :
                    /\ result[j].prediction_data[i].test_set = TestSets[i]
                    /\ result[j].prediction_data[i].label = "__totals__"
                    /\ result[j].prediction_data[i].job = j

\* a job has returned its records and they have been merged
C14_Witness ==
    \E j \in Jobs :
        /\ SucceededJob(j)
        /\ merged[j] > 0
        /\ Len(RowsOf(prediction_log, j)) = Len(TestSets)
        /\ Len(RowsOf(train_log, j)) = Iterations

\* the calls of a kind whose record has been stored in the list
Stored(kind) ==
    {<<t, i>> \in Threads \X (1..MaxCalls) :
        /\ i <= Len(thr[t].calls)
        /\ thr[t].calls[i] = kind
        /\ (i < Len(thr[t].calls) \/ thr[t].pc \in {"unlock", "idle"})}

\* a list holds one whole record per stored call, and nothing else
OneRecordPerCall(list, kind) ==
    /\ Len(list) = Cardinality(Stored(kind))
    /\ Range(list) = {CallRecord(kind, c[1], c[2]) : c \in Stored(kind)}

InCritical(t, kind) ==
    /\ thr[t].pc \in {"append", "unlock"}
    /\ CurrentCall(t) = kind

\* C15: whatever the interleaving of the threads of one job, each list holds
\* exactly one whole record per call that has stored its record (so k records
\* once k calls have returned and no call is in flight); at most one thread
\* at a time is inside each lock; and a thread waiting for the training lock
\* goes on whenever that lock is free, whoever holds the prediction lock, and
\* the other way round.
C15_AppendsSerialized ==
    /\ OneRecordPerCall(train_data[LockJob], "train")
    /\ OneRecordPerCall(prediction_data[LockJob], "prediction")
    /\ \A k \in {"train", "prediction"} :
          Cardinality({t \in Threads : InCritical(t, k)}) <= 1
    /\ \A t \in Threads :
          (thr[t].pc = "wait" /\ CurrentCall(t) = "train" /\ trainlock = 0)
              => ENABLED ThreadAcquire(t)
    /\ \A t \in Threads :
          (thr[t].pc = "wait" /\ CurrentCall(t) = "prediction" /\ predlock = 0)
              => ENABLED ThreadAcquire(t)

\* one thread is inside the training lock while another is inside the
\* prediction lock, after appends of both kinds
C15_Witness ==
    /\ \E t, u \in Threads :
          /\ t # u
          /\ InCritical(t, "train")
          /\ InCritical(u, "prediction")
    /\ Len(train_data[LockJob]) >= 1
    /\ Len(prediction_data[LockJob]) >= 1

\* the place of a status value in created, training:started,
\* prediction:started, completed ("none": no job object yet)
Rank(st) ==
    CASE st = "none" -> 0
      [] st = "created" -> 1
      [] st = "training:started" -> 2
      [] st = "prediction:started" -> 3
      [] st = "completed" -> 4

\* C16: no step moves a job's status to an earlier value; a job whose status
\* is completed has recorded every training callback and one prediction per
\* test set, and its two record sequences do not change any more.
C16_StatusForward ==
    [][\A j \in Jobs :
          /\ Rank(status'[j]) >= Rank(status[j])
          /\ status'[j] = "completed" =>
                /\ Len(train_data'[j]) = Iterations
                /\ Len(prediction_data'[j]) = Len(TestSets)
                /\ \A i \in 1..Len(TestSets) :
                      prediction_data'[j][i].test_set = TestSets[i]
          /\ status[j] = "completed" =>
                /\ train_data'[j] = train_data[j]
                /\ prediction_data'[j] = prediction_data[j]]_vars

\* a job has gone through all four values and returned its records while
\* the drain goes on
C16_Witness ==
    \E j \in Jobs :
        /\ status[j] = "completed"
        /\ fstate[j] = "ok"
        /\ Len(result[j].train_data) = Iterations
        /\ Len(result[j].prediction_data) = Len(TestSets)
        /\ merged[j] > 0

\* C17: once a job's _start_job runs, and after it has raised, the job's
\* status is not created any more: it was set to training:started before the
\* classifier was constructed.
C17_StartedBeforeConstruct ==
    \A j \in Jobs : fstate[j] \in {"running", "exc"} => status[j] # "created"

\* C17 amended: a job starts to run with status created, and the classifier
\* is constructed under that status; a step that fails the job leaves the
\* status as it was, so a constructor that raised leaves created; status is
\* training:started only from the constructor's return on, and training
\* callbacks are recorded only from then on.
C17_StartedAfterConstruct ==
    [][\A j \in Jobs :
          /\ (fstate[j] = "pending" /\ fstate'[j] = "running")
                => status'[j] = "created"
          /\ (fstate[j] = "running" /\ fstate'[j] = "exc")
                => status'[j] = status[j]
          /\ (status'[j] = "training:started" /\ status[j] # status'[j])
                => (fstate[j] = "running" /\ status[j] = "created"
                    /\ train_data[j] = <<>>)
          /\ train_data'[j] # <<>> => Rank(status'[j]) >= Rank("training:started")
      ]_vars

\* one job's constructor has raised and left status created, while another
\* job's constructor has returned and its training has recorded a callback
C17_Witness ==
    \E j, k \in Jobs :
        /\ fstate[j] = "exc" /\ status[j] = "created"
        /\ status[k] = "training:started" /\ train_data[k] # <<>>

\* C18: when a start() call returns, worker_list holds no failed job.
C18_NoFailedJobLeft ==
    [][(pc # "idle" /\ pc' = "idle" /\ exit' = "returned")
          => \A j \in Range(worker_list') : fstate'[j] # "exc"]_vars

\* C18 amended: a failed job that start() handles is removed from
\* worker_list; when start() returns, worker_list holds no failed job of that
\* call's drain; no failure is reported twice, and a later start() call does
\* not drain a job whose failure was reported.
C18_HandledFailuresRemoved ==
    [][/\ (pc # "idle" /\ pc' = "idle" /\ exit' = "returned")
            => \A j \in fs' : fstate'[j] = "exc" => j \notin Range(worker_list')
       /\ \A j \in Jobs :
            /\ reported'[j] <= 1
            /\ reported'[j] > 0 => j \notin Range(worker_list')
            /\ (reported[j] > 0 /\ pc = "idle" /\ pc' = "drain") => j \notin fs'
      ]_vars

\* a second start() call has drained another job and returned, after the
\* first call reported a failure
C18_Witness ==
    /\ pc = "idle" /\ exit = "returned" /\ startCalls = 2
    /\ fs # {}
    /\ \E j \in Jobs :
          /\ fstate[j] = "exc"
          /\ reported[j] = 1 /\ reported0[j] = 1
          /\ j \notin Range(worker_list)

\* C19: a start() call drains the set of futures worker_list held when the
\* call began: the set does not change while the call runs, whatever is
\* submitted meanwhile; only futures of that set are merged or reported by
\* the call; a future outside it is handled, if ever, by a later call that
\* found it in worker_list.
C19_DrainsSnapshot ==
    [][/\ pc # "idle" => fs' = fs
       /\ (pc = "idle" /\ pc' # "idle") => fs' = Range(worker_list)
       /\ \A j \in Jobs :
            /\ (merged'[j] # merged[j] \/ reported'[j] # reported[j])
                  => (pc = "drain" /\ j \in fs)
            /\ j \notin fs' => (merged'[j] = merged0'[j]
                                /\ reported'[j] = reported0'[j])
      ]_vars

\* start() is about to return (nothing is left of its drain) while a job
\* submitted during the call has already finished and has not been merged
C19_Witness ==
    /\ pc = "drain" /\ ready = {} /\ pending = {}
    /\ \E j \in Range(worker_list) \ fs :
          /\ fstate[j] = "ok"
          /\ merged[j] = 0

\* C20: when job_completed raises, start() ends with that exception on the
\* spot: the rows of the job just merged are at the end of both aggregate
\* logs, the step changes neither log and writes neither file (save_logs is
\* not called for that batch), and the futures of the drain not yet yielded
\* stay unyielded and unhandled by that call.
C20_CallbackRaisePropagates ==
    [][(pc = "callback" /\ pc' = "idle")
          => /\ exit' = "job_completed"
             /\ steps' = <<"merge", "callback">>
             /\ merged'[cur'] = merged0'[cur'] + 1
             /\ train_log' = train_log /\ prediction_log' = prediction_log
             /\ EndsWith(train_log', result[cur'].train_data)
             /\ EndsWith(prediction_log', result[cur'].prediction_data)
             /\ train_file' = train_file /\ pred_file' = pred_file
             /\ ready' = ready /\ pending' = pending
             /\ \A j \in ready' \cup pending' : ~HandledInCall(j)'
      ]_vars

\* job_completed has raised after a merge the files do not hold, and a
\* finished future of the drain is left unconsumed
C20_Witness ==
    /\ pc = "idle" /\ exit = "job_completed"
    /\ cur # 0 /\ result[cur].train_data # <<>>
    /\ EndsWith(train_log, result[cur].train_data)
    /\ train_file # train_log
    /\ pred_file # prediction_log
    /\ \E j \in ready : ~HandledInCall(j)

====
